---- MODULE Spec2Model ----
(***************************************************************************)
(* Model of src/suumo_scrapper.py: the SuumoScrapper field extractors.     *)
(*                                                                         *)
(* Text is a sequence of one-character strings.  The two kanji of the      *)
(* currency suffix are written "man" (U+4E07) and "en" (U+5186).           *)
(* A Python float is an exact rational <<n, d>> (d > 0, lowest terms);     *)
(* the one place where binary64 rounding changes a result of the code,     *)
(* int(float(x) * 10000), is modelled by Binary64Below.                    *)
(***************************************************************************)
EXTENDS Integers, Sequences, FiniteSets, TLC

\* soup, map_soup   the two parsed documents (self.soup, str(self.map_soup))
\* monthly_price    self.monthly_price, the cached rent in yen
\* last             the call made last on the instance and how it ended
\* priced           history: some scrap_price call has reached line 84 with a
\*                  nonzero rent
VARIABLES soup, map_soup, monthly_price, last, priced

vars == <<soup, map_soup, monthly_price, last, priced>>

None == "None"

---------------------------------------------------------------------------
(* str methods                                                             *)

Digits == {"0", "1", "2", "3", "4", "5", "6", "7", "8", "9"}

DigitVal(c) ==
  CASE c = "0" -> 0 [] c = "1" -> 1 [] c = "2" -> 2 [] c = "3" -> 3
    [] c = "4" -> 4 [] c = "5" -> 5 [] c = "6" -> 6 [] c = "7" -> 7
    [] c = "8" -> 8 [] c = "9" -> 9

\* str.isspace characters, skipped by float() and int() on both sides
Whitespace == {" ", "\t", "\n", "\r"}

\* the character sets handed to lstrip / rstrip in the source
StripCRLFTab == {"\r", "\n", "\t"}
StripLetterRLFTab == {"r", "\n", "\t"}
StripSpace == {" "}
StripManEn == {"man", "en"}
StripM2 == {"m", "2"}

RECURSIVE lstrip(_, _)
lstrip(s, chars) ==
  IF s # <<>> /\ Head(s) \in chars THEN lstrip(Tail(s), chars) ELSE s

RECURSIVE rstrip(_, _)
rstrip(s, chars) ==
  IF s # <<>> /\ s[Len(s)] \in chars
  THEN rstrip(SubSeq(s, 1, Len(s) - 1), chars)
  ELSE s

replace(s, old, new) == [i \in DOMAIN s |-> IF s[i] = old THEN new ELSE s[i]]

\* s[:-1]
DropLast(s) == IF s = <<>> THEN <<>> ELSE SubSeq(s, 1, Len(s) - 1)

\* length of the run of digits of s that starts at position i
RECURSIVE DigitRun(_, _)
DigitRun(s, i) ==
  IF i <= Len(s) /\ s[i] \in Digits THEN 1 + DigitRun(s, i + 1) ELSE 0

---------------------------------------------------------------------------
(* numbers                                                                 *)

RECURSIVE GCD(_, _)
GCD(a, b) == IF b = 0 THEN a ELSE GCD(b, a % b)

Abs(a) == IF a < 0 THEN -a ELSE a

\* the rational n / d in lowest terms, d > 0
Rat(n, d) ==
  LET g == GCD(Abs(n), d) IN
  IF n = 0 THEN <<0, 1>> ELSE <<n \div g, d \div g>>

RatAdd(x, y) == Rat(x[1] * y[2] + y[1] * x[2], x[2] * y[2])

\* x * k and x / k for an integer k > 0, cancelling before multiplying
RatMulInt(x, k) ==
  LET g == GCD(x[2], k) IN Rat(x[1] * (k \div g), x[2] \div g)

RatDivInt(x, k) ==
  LET g == GCD(Abs(x[1]), k) IN
  IF x[1] = 0 THEN <<0, 1>> ELSE Rat(x[1] \div g, x[2] * (k \div g))

\* value of the digit string s[i..j] (0 when empty)
RECURSIVE DigitsVal(_, _, _)
DigitsVal(s, i, j) ==
  IF j < i THEN 0 ELSE 10 * DigitsVal(s, i, j - 1) + DigitVal(s[j])

RECURSIVE Pow10(_)
Pow10(k) == IF k = 0 THEN 1 ELSE 10 * Pow10(k - 1)

ValueError == [status |-> "ValueError"]

\* float(str): surrounding whitespace skipped, optional sign, then
\* digits [ "." [digits] ] or "." digits; anything else raises ValueError
float(str) ==
  LET t    == rstrip(lstrip(str, Whitespace), Whitespace)
      neg  == t # <<>> /\ t[1] = "-"
      b    == IF t # <<>> /\ t[1] \in {"-", "+"} THEN Tail(t) ELSE t
      ip   == DigitRun(b, 1)
      dot  == ip < Len(b) /\ b[ip + 1] = "."
      fp   == IF dot THEN DigitRun(b, ip + 2) ELSE 0
      used == ip + (IF dot THEN 1 + fp ELSE 0)
      mant == DigitsVal(b, 1, ip) * Pow10(fp) + DigitsVal(b, ip + 2, ip + 1 + fp)
  IN
  IF ip + fp = 0 \/ used # Len(b)
  THEN ValueError
  ELSE [status |-> "ok", val |-> Rat(IF neg THEN -mant ELSE mant, Pow10(fp))]

\* int(str): surrounding whitespace skipped, optional sign, digits only
int_of_str(str) ==
  LET t   == rstrip(lstrip(str, Whitespace), Whitespace)
      neg == t # <<>> /\ t[1] = "-"
      b   == IF t # <<>> /\ t[1] \in {"-", "+"} THEN Tail(t) ELSE t
      ip  == DigitRun(b, 1)
  IN
  IF ip = 0 \/ ip # Len(b)
  THEN ValueError
  ELSE [status |-> "ok",
        val |-> IF neg THEN -DigitsVal(b, 1, ip) ELSE DigitsVal(b, 1, ip)]

\* int(x) of a float: truncation toward zero
Trunc(x) == IF x[1] >= 0 THEN x[1] \div x[2] ELSE -((-x[1]) \div x[2])

\* The decimals x among the rent texts of RentTexts for which the binary64
\* product float(x) * 10000 lies just below the exact (integer) product, so
\* that int() yields one less: 0.57 * 10000 = 5699.999999999999.
Binary64Below == {<<57, 100>>}

\* int(float(text) * 10000), line 82
IntTimes10000(x) ==
  LET t == Trunc(RatMulInt(x, 10000)) IN
  IF x \in Binary64Below THEN t - 1 ELSE t

---------------------------------------------------------------------------
(* regular expressions                                                     *)

\* "." of a regular expression: any character but a newline
Dot(c) == c # "\n"

\* EXTRA_FEES_REGEX = (\d+.?\d*man en|-) tried at position i of s: the
\* position of the last character matched, 0 when there is no match.  The
\* greedy "\d+" takes the whole run of digits; ".?" takes a character when
\* the rest still matches and none otherwise.
ExtraFeesMatchAt(s, i) ==
  LET a == DigitRun(s, i)
      j == i + a
      b == DigitRun(s, j + 1)
  IN
  IF a >= 1 /\ j + 2 + b <= Len(s) /\ Dot(s[j])
       /\ s[j + 1 + b] = "man" /\ s[j + 2 + b] = "en"
  THEN j + 2 + b
  ELSE IF a >= 1 /\ j + 1 <= Len(s) /\ s[j] = "man" /\ s[j + 1] = "en"
  THEN j + 1
  ELSE IF i <= Len(s) /\ s[i] = "-"
  THEN i
  ELSE 0

NoMatch == [found |-> FALSE]

\* re.search(EXTRA_FEES_REGEX, s): the leftmost match.  group(0) is the whole
\* match and group(1) the parenthesised group, which spans the whole pattern.
EXTRA_FEES_REGEX(s) ==
  LET starts == {i \in 1..Len(s) : ExtraFeesMatchAt(s, i) > 0} IN
  IF starts = {} THEN NoMatch
  ELSE LET i == CHOOSE k \in starts : \A m \in starts : k <= m
           e == ExtraFeesMatchAt(s, i)
       IN [found |-> TRUE, end |-> e,
           group |-> <<SubSeq(s, i, e), SubSeq(s, i, e)>>]

\* group(k) of a match, k = 0 or 1
group(m, k) == m.group[k + 1]

\* The literal keys of LAT__REGEX and LONG_REGEX, "lat": and "lng": with the
\* blank that follows, are each one element of the text.  "." matches the
\* first character of a key, and no digit follows it inside the key.
Keys == {"LATKEY", "LNGKEY"}

\* (\d+.\d+) tried at position i of s: the last position matched, 0 for none.
\* When no character and digit follow the run of digits, "." and the second
\* "\d+" take the last two digits of a run of three or more.
CoordMatchAt(s, i) ==
  LET a == DigitRun(s, i)
      j == i + a
      b == DigitRun(s, j + 1)
  IN
  IF a >= 1 /\ j <= Len(s) /\ Dot(s[j]) /\ s[j] \notin Keys /\ b >= 1 THEN j + b
  ELSE IF a >= 3 THEN j - 1
  ELSE 0

\* re.search(key + (\d+.\d+), s): the leftmost match; group(1) is the number
CoordSearch(key, s) ==
  LET starts == {i \in 1..Len(s) : s[i] = key /\ CoordMatchAt(s, i + 1) > 0} IN
  IF starts = {} THEN NoMatch
  ELSE LET i == CHOOSE k \in starts : \A m \in starts : k <= m
       IN [found |-> TRUE, end |-> CoordMatchAt(s, i + 1),
           group |-> <<SubSeq(s, i, CoordMatchAt(s, i + 1)),
                       SubSeq(s, i + 1, CoordMatchAt(s, i + 1))>>]

LAT__REGEX(s) == CoordSearch("LATKEY", s)
LONG_REGEX(s) == CoordSearch("LNGKEY", s)

---------------------------------------------------------------------------
(* the parsed documents                                                    *)
(*                                                                         *)
(* soup is a record of what the class lookups of the source find in the    *)
(* main page, each a sequence of element texts in document order:          *)
(*   main_emphasis   div.property_view_main-emphasis                       *)
(*   note_emphasis   span.property_view_note-emphasis                      *)
(*   header_title    .section_h1-header-title                              *)
(*   data_body       div.property_data-body                                *)
(*   detail_body     div.property_view_detail-body, each the sequence of   *)
(*                   its div.property_view_detail-text texts               *)
(* map_soup is str(self.map_soup), the text of the kankyo/ page.           *)

\* soup.find_all(...)[k], zero-based: IndexError when k is out of range
InRange(list, k) == k < Len(list)
Item(list, k) == list[k + 1]

\* The outcome of one call.  status is "ok" or the exception raised, at the
\* source line `line`; monthly_price is self.monthly_price when the call
\* ends; printed tells whether the diagnostic of line 109 was printed and
\* divided whether the division of line 112 was evaluated.
Raise(exc, ln, mp) ==
  [status |-> exc, line |-> ln, ret |-> None, monthly_price |-> mp,
   printed |-> FALSE, divided |-> FALSE, total |-> None]

Return(value, mp) ==
  [status |-> "ok", line |-> 0, ret |-> value, monthly_price |-> mp,
   printed |-> FALSE, divided |-> FALSE, total |-> None]

---------------------------------------------------------------------------
(* the operations of SuumoScrapper: s is self.soup, ms is str(map_soup),   *)
(* mp is self.monthly_price when the call starts                           *)

add_slash_url(url) ==
  IF url # <<>> /\ url[Len(url)] = "/" THEN url ELSE url \o <<"/">>

scrap_coordinates(ms, mp) ==
  IF ~LAT__REGEX(ms).found THEN Raise("AttributeError", 55, mp)
  ELSE IF ~LONG_REGEX(ms).found THEN Raise("AttributeError", 56, mp)
  ELSE Return(<<group(LAT__REGEX(ms), 1), group(LONG_REGEX(ms), 1)>>, mp)

scrap_name(s, mp) ==
  IF s.header_title = <<>> THEN Raise("AttributeError", 67, mp)
  ELSE Return(rstrip(lstrip(s.header_title[1], StripCRLFTab), StripSpace), mp)

\* the monthly fees of line 88, read from block `idx` of the data blocks
MonthlyFees(s, idx) ==
  int_of_str(replace(rstrip(Item(s.data_body, idx), StripManEn), "-", "0"))

\* scrap_price changed to answer from the cache once a rent is cached
scrap_price_Cached(s, mp) ==
  LET raw  == IF s.main_emphasis # <<>> THEN s.main_emphasis ELSE s.note_emphasis
      f    == float(rstrip(lstrip(raw[1], StripCRLFTab), StripManEn))
      rent == IntTimes10000(f.val)
      fees == MonthlyFees(s, 0)
  IN
  IF mp # 0 THEN Return(<<mp, 0>>, mp)
  ELSE IF raw = <<>> THEN Raise("AttributeError", 80, mp)
  ELSE IF f.status # "ok" THEN Raise("ValueError", 82, mp)
  ELSE IF ~InRange(s.data_body, 0) THEN Raise("IndexError", 87, rent)
  ELSE IF fees.status # "ok" THEN Raise("ValueError", 88, rent)
  ELSE Return(<<rent, fees.val>>, rent)

\* scrap_price changed to assign self.monthly_price after the fees are read
scrap_price_LateStore(s, mp) ==
  LET raw  == IF s.main_emphasis # <<>> THEN s.main_emphasis ELSE s.note_emphasis
      f    == float(rstrip(lstrip(raw[1], StripCRLFTab), StripManEn))
      rent == IntTimes10000(f.val)
      fees == MonthlyFees(s, 0)
  IN
  IF raw = <<>> THEN Raise("AttributeError", 80, mp)
  ELSE IF f.status # "ok" THEN Raise("ValueError", 82, mp)
  ELSE IF ~InRange(s.data_body, 0) THEN Raise("IndexError", 87, mp)
  ELSE IF fees.status # "ok" THEN Raise("ValueError", 88, mp)
  ELSE Return(<<rent, fees.val>>, rent)

\* self.monthly_price is assigned (line 84) before the fees are read
scrap_price(s, mp) ==
  LET raw  == IF s.main_emphasis # <<>> THEN s.main_emphasis ELSE s.note_emphasis
      f    == float(rstrip(lstrip(raw[1], StripCRLFTab), StripManEn))
      rent == IntTimes10000(f.val)
      fees == MonthlyFees(s, 0)
  IN
  IF raw = <<>> THEN Raise("AttributeError", 80, mp)
  ELSE IF f.status # "ok" THEN Raise("ValueError", 82, mp)
  ELSE IF ~InRange(s.data_body, 0) THEN Raise("IndexError", 87, rent)
  ELSE IF fees.status # "ok" THEN Raise("ValueError", 88, rent)
  ELSE Return(<<rent, fees.val>>, rent)

\* float(text.rstrip(man en).replace('-', '0')), lines 101-106
FeeValue(text) == float(replace(rstrip(text, StripManEn), "-", "0"))

\* FeesInMonths without the test of line 108: the division raises
FeesInMonths_Unguarded(total, mp) ==
  IF mp = 0
  THEN [Raise("ZeroDivisionError", 112, mp) EXCEPT !.total = total]
  ELSE [Return(RatDivInt(RatMulInt(total, 10000), mp), mp)
          EXCEPT !.divided = TRUE, !.total = total]

\* FeesInMonths without the conversion of the total to yen
FeesInMonths_NoYen(total, mp) ==
  IF mp = 0
  THEN [Return(0, mp) EXCEPT !.printed = TRUE, !.total = total]
  ELSE [Return(RatDivInt(total, mp), mp)
          EXCEPT !.divided = TRUE, !.total = total]

\* FeesInMonths changed to clear the cached rent once it has used it
FeesInMonths_ClearsRent(total, mp) ==
  IF mp = 0
  THEN [Return(0, 0) EXCEPT !.printed = TRUE, !.total = total]
  ELSE [Return(RatDivInt(RatMulInt(total, 10000), mp), 0)
          EXCEPT !.divided = TRUE, !.total = total]

\* lines 108-113: the fees in months of rent, or 0 and a diagnostic
FeesInMonths(total, mp) ==
  IF mp = 0
  THEN [Return(0, mp) EXCEPT !.printed = TRUE, !.total = total]
  ELSE [Return(RatDivInt(RatMulInt(total, 10000), mp), mp)
          EXCEPT !.divided = TRUE, !.total = total]

scrap_other_fees(s, mp) ==
  LET body      == s.data_body
      res       == EXTRA_FEES_REGEX(Item(body, 1))
      reikin    == FeeValue(group(res, 0))
      shikikin  == FeeValue(group(res, 1))
      hoken     == FeeValue(lstrip(Item(body, 2), StripCRLFTab))
      other     == FeeValue(lstrip(Item(body, 3), StripLetterRLFTab))
      total     == RatAdd(RatAdd(RatAdd(reikin.val, shikikin.val), hoken.val),
                          other.val)
  IN
  IF ~InRange(body, 1) THEN Raise("IndexError", 99, mp)
  ELSE IF ~res.found THEN Raise("AttributeError", 101, mp)
  ELSE IF reikin.status # "ok" THEN Raise("ValueError", 101, mp)
  ELSE IF shikikin.status # "ok" THEN Raise("ValueError", 102, mp)
  ELSE IF ~InRange(body, 2) THEN Raise("IndexError", 103, mp)
  ELSE IF hoken.status # "ok" THEN Raise("ValueError", 104, mp)
  ELSE IF ~InRange(body, 3) THEN Raise("IndexError", 105, mp)
  ELSE IF other.status # "ok" THEN Raise("ValueError", 106, mp)
  ELSE FeesInMonths(total, mp)

\* stations += f'{station.text}\n' for each station, in document order
RECURSIVE AppendStations(_)
AppendStations(stations_raw) ==
  IF stations_raw = <<>> THEN <<>>
  ELSE AppendStations(DropLast(stations_raw))
         \o stations_raw[Len(stations_raw)] \o <<"\n">>

\* scrap_closest_stations without line 127
scrap_closest_stations_KeepsNewline(s, mp) ==
  IF ~InRange(s.detail_body, 2) THEN Raise("IndexError", 122, mp)
  ELSE Return(AppendStations(Item(s.detail_body, 2)), mp)

scrap_closest_stations(s, mp) ==
  IF ~InRange(s.detail_body, 2) THEN Raise("IndexError", 122, mp)
  ELSE Return(DropLast(AppendStations(Item(s.detail_body, 2))), mp)

\* find_all('div', class_='property_data-body')[idx].text.lstrip(...)
DataBodyText(s, idx) == lstrip(Item(s.data_body, idx), StripCRLFTab)

scrap_bukken_type(s, mp) ==
  IF ~InRange(s.data_body, 7) THEN Raise("IndexError", 136, mp)
  ELSE Return(DataBodyText(s, 7), mp)

\* scrap_madori reading the block before its own
scrap_madori_OffByOne(s, mp) ==
  IF ~InRange(s.data_body, 3) THEN Raise("IndexError", 144, mp)
  ELSE Return(DataBodyText(s, 3), mp)

\* scrap_madori answering an empty text when its block is missing
scrap_madori_Default(s, mp) ==
  IF ~InRange(s.data_body, 4) THEN Return(<<>>, mp)
  ELSE Return(DataBodyText(s, 4), mp)

scrap_madori(s, mp) ==
  IF ~InRange(s.data_body, 4) THEN Raise("IndexError", 144, mp)
  ELSE Return(DataBodyText(s, 4), mp)

scrap_surface(s, mp) ==
  LET f == float(rstrip(DataBodyText(s, 5), StripM2)) IN
  IF ~InRange(s.data_body, 5) THEN Raise("IndexError", 152, mp)
  ELSE IF f.status # "ok" THEN Raise("ValueError", 152, mp)
  ELSE Return(f.val, mp)

scrap_age(s, mp) ==
  IF ~InRange(s.data_body, 8) THEN Raise("IndexError", 155, mp)
  ELSE Return(DataBodyText(s, 8), mp)

---------------------------------------------------------------------------
(* the pages the scraper is constructed on                                 *)

MaxBlocks == 9
MaxContainers == 3
MaxStations == 2

\* texts of the rent element: 5, 0, 0.57, 1.23456 and 8.5 man-en, and a dash
RentTexts ==
  {<<"\r", "\n", "\t", "5", "man", "en">>,
   <<"0", "man", "en">>,
   <<"0", ".", "5", "7", "man", "en">>,
   <<"1", ".", "2", "3", "4", "5", "6", "man", "en">>,
   <<"8", ".", "5", "man", "en">>,
   <<"-">>}

\* texts of data block 0 (monthly fees): 5000 en, none, 1 man-en, 0.5 man-en
MonthlyFeesTexts ==
  {<<"5", "0", "0", "0", "en">>,
   <<"-">>,
   <<"1", "man", "en">>,
   <<"0", ".", "5", "man", "en">>}

\* texts of data block 1, two sub-fields: 1/2, none/1 and 5/5 man-en
UpFrontValues ==
  {<<"1", "man", "en", "/", "2", "man", "en">>,
   <<"-", "/", "1", "man", "en">>,
   <<"5", "man", "en", "/", "5", "man", "en">>}

\* texts of a single fee field: none, 5 man-en, 1.5 man-en
FeeValues ==
  {<<"-">>,
   <<"5", "man", "en">>,
   <<"\r", "\n", "\t", "1", ".", "5", "man", "en">>}

\* texts of data block 5 (surface)
SurfaceTexts ==
  {<<"\r", "\n", "\t", "2", "5", ".", "5", "m", "2">>,
   <<"2", "2", "m", "2">>}

\* texts of a station fragment
StationTexts ==
  {<<"S", "t", "a", "t", "i", "o", "n", " ", "A">>,
   <<"S", "t", "a", "t", "i", "o", "n", " ", "B">>,
   <<>>}

\* urls handed to add_slash_url
Urls ==
  {<<"u">>,
   <<"u", "/">>}

\* the text of data block k (zero-based) where the model does not vary it
FixedBlock(k) ==
  CASE k = 4 -> <<"\r", "\n", "\t", "1", "D", "K">>
    [] k = 6 -> <<"\r", "\n", "\t", "S">>
    [] k = 7 -> <<"\r", "\n", "\t", "A", "p", "a", "r", "t", "m", "e", "n", "t">>
    [] k = 8 -> <<"\r", "\n", "\t", "1", "0", "y">>
    [] OTHER -> <<"x">>

DefaultTitle == <<"\r", "\n", "\t", "\t", "\t", "N", "a", "m", "e", " ", " ", " ">>
DefaultStations ==
  << <<"S", "t", "a", "t", "i", "o", "n", " ", "A">>,
     <<"S", "t", "a", "t", "i", "o", "n", " ", "B">> >>
\* {"lat": 35.6895, "lng": 139.6917}
DefaultMap ==
  <<"{", "LATKEY", "3", "5", ".", "6", "8", "9", "5", ",", " ",
    "LNGKEY", "1", "3", "9", ".", "6", "9", "1", "7", "}">>
MapTexts ==
  {DefaultMap,
   <<"LATKEY", "1", "2", "3", "LNGKEY", "1", "3", "9">>,
   <<"LATKEY", "3", "5", ".", "6">>,
   <<>>}

\* texts of data block 1: the two-valued texts and one without any value
UpFrontTexts == UpFrontValues \cup {<<>>}

\* n data blocks; blocks 0-3 and 5 hold the given texts
Blocks(n, fees, upfront, hoken, other, surface) ==
  [k \in 1..n |->
     CASE k = 1 -> fees [] k = 2 -> upfront [] k = 3 -> hoken
       [] k = 4 -> other [] k = 6 -> surface [] OTHER -> FixedBlock(k - 1)]

DefaultFees == <<"5", "0", "0", "0", "en">>
DefaultUpFront == <<"1", "man", "en", "/", "2", "man", "en">>
DefaultSurface == <<"\r", "\n", "\t", "2", "5", ".", "5", "m", "2">>

DefaultBody ==
  Blocks(MaxBlocks, DefaultFees, DefaultUpFront, <<"-">>, <<"-">>, DefaultSurface)

\* the data blocks: every number of blocks, and with all MaxBlocks blocks
\* every text of the monthly fees, of the three one-time fee fields, and of
\* the surface
DataBodies ==
  {Blocks(n, DefaultFees, DefaultUpFront, <<"-">>, <<"-">>, DefaultSurface) :
     n \in 0..MaxBlocks}
    \cup {Blocks(MaxBlocks, f, DefaultUpFront, <<"-">>, <<"-">>, sf) :
            f \in MonthlyFeesTexts, sf \in SurfaceTexts}
    \cup {Blocks(MaxBlocks, DefaultFees, u, h, o, DefaultSurface) :
            u \in UpFrontTexts, h \in FeeValues, o \in FeeValues}

\* the rent element: the div, or only the span, or neither
PriceElements ==
  {[div |-> <<t>>, span |-> <<>>] : t \in RentTexts}
    \cup {[div |-> <<>>, span |-> << <<"8", ".", "5", "man", "en">> >>],
          [div |-> <<>>, span |-> <<>>]}

StationLists == UNION {[1..n -> StationTexts] : n \in 0..MaxStations}

\* nd detail containers; the third holds the station fragments
DetailBodies ==
  {[k \in 1..nd |-> IF k = 3 THEN st ELSE << <<"d">> >>] :
     nd \in 0..MaxContainers, st \in StationLists}

DefaultDetail == << << <<"d">> >>, << <<"d">> >>, DefaultStations >>

Page(price, title, body, detail) ==
  [main_emphasis |-> price.div, note_emphasis |-> price.span,
   header_title |-> title, data_body |-> body, detail_body |-> detail]

DefaultPrice == [div |-> << <<"\r", "\n", "\t", "5", "man", "en">> >>, span |-> <<>>]

\* pages that vary the price element and the data blocks
PricePages ==
  {Page(pr, <<DefaultTitle>>, b, DefaultDetail) :
     pr \in PriceElements, b \in DataBodies}

\* pages that vary the title and the detail containers
DetailPages ==
  {Page(DefaultPrice, ti, DefaultBody, d) :
     ti \in {<<>>, <<DefaultTitle>>}, d \in DetailBodies}

Documents ==
  {[soup |-> pg, map_soup |-> DefaultMap] : pg \in PricePages \cup DetailPages}
    \cup {[soup |-> Page(DefaultPrice, <<DefaultTitle>>, DefaultBody, DefaultDetail),
           map_soup |-> m] : m \in MapTexts}

---------------------------------------------------------------------------
(* the state machine: one scraper instance and the calls made on it        *)

Call(name, argument, outcome) == [op |-> name, arg |-> argument, out |-> outcome]

\* __init__, lines 25-32: both documents parsed, self.monthly_price = 0
Init ==
  /\ \E doc \in Documents : soup = doc.soup /\ map_soup = doc.map_soup
  /\ monthly_price = 0
  /\ last = Call("__init__", <<>>, Return(None, 0))
  /\ priced = FALSE

\* a call of an extraction method: its outcome is recorded in last, and
\* self.monthly_price is what the method left in it
Invoke(name, outcome) ==
  /\ last' = Call(name, <<>>, outcome)
  /\ monthly_price' = outcome.monthly_price
  /\ UNCHANGED <<soup, map_soup>>

\* line 84 was executed: the call returned, or failed after that line
Assigned(outcome) == outcome.status = "ok" \/ outcome.line > 84

ScrapPrice ==
  /\ Invoke("scrap_price", scrap_price(soup, monthly_price))
  /\ priced' = (priced \/ (Assigned(scrap_price(soup, monthly_price))
                             /\ scrap_price(soup, monthly_price).monthly_price # 0))

ScrapOtherFees ==
  Invoke("scrap_other_fees", scrap_other_fees(soup, monthly_price))
    /\ UNCHANGED priced

ScrapCoordinates ==
  Invoke("scrap_coordinates", scrap_coordinates(map_soup, monthly_price))
    /\ UNCHANGED priced

ScrapName ==
  Invoke("scrap_name", scrap_name(soup, monthly_price)) /\ UNCHANGED priced

ScrapClosestStations ==
  Invoke("scrap_closest_stations", scrap_closest_stations(soup, monthly_price))
    /\ UNCHANGED priced

ScrapBukkenType ==
  Invoke("scrap_bukken_type", scrap_bukken_type(soup, monthly_price))
    /\ UNCHANGED priced

ScrapMadori ==
  Invoke("scrap_madori", scrap_madori(soup, monthly_price)) /\ UNCHANGED priced

ScrapSurface ==
  Invoke("scrap_surface", scrap_surface(soup, monthly_price)) /\ UNCHANGED priced

ScrapAge ==
  Invoke("scrap_age", scrap_age(soup, monthly_price)) /\ UNCHANGED priced

AddSlashUrl ==
  \E url \in Urls :
    /\ last' = Call("add_slash_url", url, Return(add_slash_url(url), monthly_price))
    /\ UNCHANGED <<soup, map_soup, monthly_price, priced>>

Next ==
  \/ ScrapPrice
  \/ ScrapOtherFees
  \/ ScrapCoordinates
  \/ ScrapName
  \/ ScrapClosestStations
  \/ ScrapBukkenType
  \/ ScrapMadori
  \/ ScrapSurface
  \/ ScrapAge
  \/ AddSlashUrl

Spec == Init /\ [][Next]_vars

---------------------------------------------------------------------------
(* properties                                                              *)

body == soup.data_body
out == last.out

\* blocks 1-3 exist and each fee field holds a value (an amount or the dash)
FeeFieldsValued ==
  /\ Len(body) >= 4
  /\ Item(body, 1) \in UpFrontValues
  /\ Item(body, 2) \in FeeValues
  /\ Item(body, 3) \in FeeValues

\* C1: a call of scrap_other_fees while the cached rent is 0, on a page whose
\* fee fields all hold values, raises nothing, does not divide, prints the
\* diagnostic and returns 0, whatever the fee values are.
C1_ZeroRentReturnsZero ==
  (last.op = "scrap_other_fees" /\ monthly_price = 0 /\ FeeFieldsValued)
    => /\ out.status = "ok"
       /\ ~out.divided
       /\ out.printed
       /\ out.ret = 0

\* the call was made with rent 0 and fees that do not sum to zero
C1_Witness ==
  /\ last.op = "scrap_other_fees" /\ monthly_price = 0 /\ FeeFieldsValued
  /\ out.status = "ok" /\ out.total # <<0, 1>> /\ out.ret = 0

\* the total of line 107 in yen (the fee texts have at most four decimals)
TotalYen == Trunc(RatMulInt(out.total, 10000))

\* C2: with a nonzero cached rent R, scrap_other_fees returns T / R for the
\* total T in yen: the returned fraction n / d satisfies n * R = T * d, and
\* a rent of 50,000 with a total of 150,000 gives 3.0.
C2_FeesOverRent ==
  (last.op = "scrap_other_fees" /\ out.status = "ok" /\ monthly_price # 0)
    => /\ out.divided
       /\ out.ret[1] * monthly_price = TotalYen * out.ret[2]
       /\ out.ret[2] > 0
       /\ (monthly_price = 50000 /\ TotalYen = 150000 => out.ret = <<3, 1>>)

C2_Witness ==
  /\ last.op = "scrap_other_fees" /\ out.status = "ok"
  /\ monthly_price = 50000 /\ TotalYen = 150000 /\ out.ret = <<3, 1>>

\* the k-th (k = 1, 2) sub-field of the up-front block: the k-th match of the
\* pattern, normalised like the other fee fields
SubField(text, k) ==
  LET first == EXTRA_FEES_REGEX(text)
      rest  == SubSeq(text, first.end + 1, Len(text))
  IN IF k = 1 THEN FeeValue(group(first, 0))
     ELSE FeeValue(group(EXTRA_FEES_REGEX(rest), 0))

\* C3: the total of scrap_other_fees is key money + deposit (the two
\* sub-field values of the up-front block) + insurance + miscellaneous fee.
C3_TotalSumsBothSubFields ==
  (last.op = "scrap_other_fees" /\ out.status = "ok" /\ FeeFieldsValued)
    => out.total =
         RatAdd(RatAdd(RatAdd(SubField(Item(body, 1), 1).val,
                              SubField(Item(body, 1), 2).val),
                       FeeValue(lstrip(Item(body, 2), StripCRLFTab)).val),
                FeeValue(lstrip(Item(body, 3), StripLetterRLFTab)).val)

\* the outcome of the operation `name` called first after construction
Fresh(name, arg) ==
  CASE name = "scrap_price" -> scrap_price(soup, 0)
    [] name = "scrap_coordinates" -> scrap_coordinates(map_soup, 0)
    [] name = "scrap_name" -> scrap_name(soup, 0)
    [] name = "scrap_closest_stations" -> scrap_closest_stations(soup, 0)
    [] name = "scrap_bukken_type" -> scrap_bukken_type(soup, 0)
    [] name = "scrap_madori" -> scrap_madori(soup, 0)
    [] name = "scrap_surface" -> scrap_surface(soup, 0)
    [] name = "scrap_age" -> scrap_age(soup, 0)
    [] name = "add_slash_url" -> Return(add_slash_url(arg), 0)
    [] OTHER -> Return(None, 0)

\* C4: whatever was called before, an operation other than scrap_other_fees
\* ends as it does when called first (same exception, or same value), and
\* scrap_other_fees returns a rent-relative value only after a scrap_price
\* call that obtained a nonzero rent.
C4_OnlyFeesDependOnOrder ==
  /\ last.op \notin {"__init__", "scrap_other_fees"}
       => /\ out.status = Fresh(last.op, last.arg).status
          /\ out.ret = Fresh(last.op, last.arg).ret
  /\ (last.op = "scrap_other_fees" /\ out.divided) => priced

\* scrap_other_fees returned a nonzero number of months after scrap_price
C4_Witness ==
  /\ last.op = "scrap_other_fees" /\ out.status = "ok" /\ out.divided
  /\ out.ret # <<0, 1>> /\ priced

\* the fragments joined by single newlines, first to last
RECURSIVE Join(_)
Join(frags) ==
  IF frags = <<>> THEN <<>>
  ELSE IF Len(frags) = 1 THEN frags[1]
  ELSE frags[1] \o <<"\n">> \o Join(Tail(frags))

StationA == <<"S", "t", "a", "t", "i", "o", "n", " ", "A">>
StationB == <<"S", "t", "a", "t", "i", "o", "n", " ", "B">>

\* C5: when the station container exists, scrap_closest_stations returns its
\* fragments in document order joined by single newlines without a trailing
\* one: "" for no fragment, "Station A\nStation B" for the two stations.
C5_StationsJoined ==
  (last.op = "scrap_closest_stations" /\ Len(soup.detail_body) >= 3)
    => /\ out.status = "ok"
       /\ out.ret = Join(soup.detail_body[3])
       /\ (soup.detail_body[3] = <<>> => out.ret = <<>>)
       /\ (soup.detail_body[3] = <<StationA, StationB>>
             => out.ret = StationA \o <<"\n">> \o StationB)

\* the container holds no station and the call returned the empty string
C5_Witness ==
  /\ last.op = "scrap_closest_stations" /\ Len(soup.detail_body) >= 3
  /\ soup.detail_body[3] = <<>> /\ out.status = "ok" /\ out.ret = <<>>

\* round(x) of a non-negative rational, ties to even as Python's round
Round(x) ==
  LET q == x[1] \div x[2]
      r == 2 * (x[1] % x[2])
  IN IF r < x[2] THEN q
     ELSE IF r > x[2] THEN q + 1
     ELSE IF q % 2 = 0 THEN q ELSE q + 1

\* the text is <number> man en, after leading whitespace
Number(text) ==
  LET t == lstrip(text, Whitespace) IN float(SubSeq(t, 1, Len(t) - 2))

IsCurrencyText(text) ==
  LET t == lstrip(text, Whitespace) IN
  /\ Len(t) >= 3 /\ t[Len(t) - 1] = "man" /\ t[Len(t)] = "en"
  /\ Number(text).status = "ok" /\ Number(text).val[1] >= 0

\* the text of the rent element scrap_price reads
RentText ==
  IF soup.main_emphasis # <<>> THEN soup.main_emphasis[1] ELSE soup.note_emphasis[1]

HasRentText == soup.main_emphasis # <<>> \/ soup.note_emphasis # <<>>

\* C6: for a rent text and a monthly-fees text of the form <number> man en,
\* the integers scrap_price returns equal round(number * 10000).
C6_YenIsRounded ==
  (last.op = "scrap_price" /\ out.status = "ok")
    => /\ IsCurrencyText(RentText)
            => out.ret[1] = Round(RatMulInt(Number(RentText).val, 10000))
       /\ IsCurrencyText(Item(body, 0))
            => out.ret[2] = Round(RatMulInt(Number(Item(body, 0)).val, 10000))

\* what each positional operation makes of a block's text
AsText(text) == lstrip(text, StripCRLFTab)
AsSurface(text) == float(rstrip(lstrip(text, StripCRLFTab), StripM2))
AsMonthlyFees(text) == int_of_str(replace(rstrip(text, StripManEn), "-", "0"))

\* the value is the content of block idx and of no block with another text
TextOfBlock(value, idx) ==
  /\ value = AsText(Item(body, idx))
  /\ \A k \in 0..(Len(body) - 1) :
       Item(body, k) # Item(body, idx) => value # AsText(Item(body, k))

SurfaceOfBlock(value, idx) ==
  /\ [status |-> "ok", val |-> value] = AsSurface(Item(body, idx))
  /\ \A k \in 0..(Len(body) - 1) :
       Item(body, k) # Item(body, idx)
         => [status |-> "ok", val |-> value] # AsSurface(Item(body, k))

MonthlyFeesOfBlock(value, idx) ==
  /\ [status |-> "ok", val |-> value] = AsMonthlyFees(Item(body, idx))
  /\ \A k \in 0..(Len(body) - 1) :
       Item(body, k) # Item(body, idx)
         => [status |-> "ok", val |-> value] # AsMonthlyFees(Item(body, k))

Returned(name) == last.op = name /\ out.status = "ok" /\ Len(body) >= 9

\* C7 as stated: index 0 = floor plan, 4 = madori, 5 = surface, 7 = type,
\* 8 = age, the floor plan being what scrap_madori returns (the madori is
\* the floor-plan code); each operation returns the stripped content of the
\* block at its field's index.
C7_FloorPlanAtIndexZero ==
  /\ Returned("scrap_madori") => TextOfBlock(out.ret, 0) /\ TextOfBlock(out.ret, 4)
  /\ Returned("scrap_surface") => SurfaceOfBlock(out.ret, 5)
  /\ Returned("scrap_bukken_type") => TextOfBlock(out.ret, 7)
  /\ Returned("scrap_age") => TextOfBlock(out.ret, 8)

\* C7 amended: index 0 = monthly fees (the second value of scrap_price),
\* 4 = madori, 5 = surface, 7 = type, 8 = age; on a page with at least 9
\* blocks an operation that returns gives the content of the block at its
\* index, stripped and converted as the operation does, and of no block
\* with another text.
C7_FieldsAtFixedIndex ==
  /\ Returned("scrap_price") => MonthlyFeesOfBlock(out.ret[2], 0)
  /\ Returned("scrap_madori") => TextOfBlock(out.ret, 4)
  /\ Returned("scrap_surface") => SurfaceOfBlock(out.ret, 5)
  /\ Returned("scrap_bukken_type") => TextOfBlock(out.ret, 7)
  /\ Returned("scrap_age") => TextOfBlock(out.ret, 8)

\* on a page with at least 9 blocks scrap_price returned the monthly fees
\* held by block 0, 5000 yen
C7_Witness ==
  /\ Returned("scrap_price") /\ out.ret[2] = 5000
  /\ Item(body, 0) = <<"5", "0", "0", "0", "en">>

\* scrap_price reaches its lookup of block 0: the rent element parses
RentParses ==
  HasRentText /\ float(rstrip(lstrip(RentText, StripCRLFTab), StripManEn)).status = "ok"

\* the operation called last reached a lookup at an index the page lacks
LookupOutOfRange ==
  \/ last.op = "scrap_price" /\ RentParses /\ Len(body) < 1
  \/ last.op = "scrap_other_fees" /\ Len(body) < 2
  \/ last.op = "scrap_other_fees" /\ Len(body) \in {2, 3}
       /\ Item(body, 1) \in UpFrontValues
       /\ (Len(body) = 3 => Item(body, 2) \in FeeValues)
  \/ last.op = "scrap_madori" /\ Len(body) < 5
  \/ last.op = "scrap_surface" /\ Len(body) < 6
  \/ last.op = "scrap_bukken_type" /\ Len(body) < 8
  \/ last.op = "scrap_age" /\ Len(body) < 9
  \/ last.op = "scrap_closest_stations" /\ Len(soup.detail_body) < 3

\* C8 as stated: a lookup at an index the page lacks signals FieldNotFound.
C8_SignalsFieldNotFound ==
  LookupOutOfRange => out.status = "FieldNotFound" /\ out.ret = None

\* C8 amended: such a lookup raises the unchecked IndexError of the list
\* access; the operation returns no value and no default.
C8_RaisesIndexError ==
  LookupOutOfRange => out.status = "IndexError" /\ out.ret = None

\* index 4 is looked up on a page with only 3 blocks
C8_Witness ==
  /\ last.op = "scrap_madori" /\ Len(body) = 3
  /\ out.status = "IndexError" /\ out.ret = None

\* C9: no call changes a parsed document, and the cached rent changes only
\* in a call of scrap_price: every other operation leaves it as it was,
\* whether it returns or raises.
C9_OnlyPriceWritesRent ==
  [][/\ soup' = soup
     /\ map_soup' = map_soup
     /\ (monthly_price' # monthly_price => last'.op = "scrap_price")
     /\ (last'.op # "scrap_price" => last'.out.monthly_price = monthly_price)]_vars

\* a rent is cached and a later call of another operation raised
C9_Witness ==
  /\ monthly_price # 0 /\ priced
  /\ last.op = "scrap_other_fees" /\ out.status # "ok"

\* the rent scrap_price parses from the page
NewRent ==
  IntTimes10000(float(rstrip(lstrip(RentText, StripCRLFTab), StripManEn)).val)

\* scrap_price failed at the monthly-fees step (block missing, line 87, or
\* text not an integer, line 88)
FailedAtFees ==
  last.op = "scrap_price" /\ out.status # "ok" /\ out.line \in {87, 88}

\* C10: when scrap_price fails at the monthly-fees step the cached rent holds
\* the newly parsed rent; a scrap_other_fees call that follows and reaches
\* the computation divides by that rent (a nonzero one) and prints no
\* diagnostic.
C10_RentKeptOnFeesFailure ==
  /\ [](FailedAtFees => monthly_price = NewRent)
  /\ [][(FailedAtFees /\ NewRent # 0
           /\ last'.op = "scrap_other_fees" /\ last'.out.status = "ok")
         => /\ last'.out.divided
            /\ ~last'.out.printed
            /\ last'.out.ret = RatDivInt(RatMulInt(last'.out.total, 10000), NewRent)]_vars

\* scrap_price failed on the fees text, then scrap_other_fees divided
C10_Witness ==
  /\ last.op = "scrap_other_fees" /\ out.divided /\ out.ret # <<0, 1>>
  /\ AsMonthlyFees(Item(body, 0)).status # "ok"
  /\ monthly_price = NewRent

====
